---------------------------- MODULE Spec2Model ----------------------------
(***************************************************************************)
(* Statistical engine of analyze-results.py (Azure micro-segmentation      *)
(* study): confidence interval, Cohen's d, effect-size label, baseline     *)
(* relative overhead and statistical power.                                *)
(*                                                                         *)
(* Floating-point numbers are modelled as tagged values: NaN, +Inf, -Inf   *)
(* or a finite fixed-point number counted in units of 1/Scale.  The        *)
(* special values follow the IEEE-754 rules numpy applies (inf - inf is    *)
(* NaN, every comparison with NaN is false); finite results are rounded    *)
(* to the nearest unit, symmetrically in sign.                             *)
(***************************************************************************)
EXTENDS Integers, Sequences, FiniteSets, TLC

\* ------------------------------------------------------------------ bounds
\* longest sample list handed to calculate_confidence_interval / group1
MaxLen == 3
\* longest second group handed to calculate_cohens_d
MaxLen2 == 2
\* finite sample values are the whole numbers 1..MaxVal
MaxVal == 2
\* effect sizes are drawn from -MaxD..MaxD thousandths, plus NaN and +-Inf
MaxD == 1000
\* baseline / configuration values are the halves -MaxHalf/2 .. MaxHalf/2
MaxHalf == 4
\* per-group sample counts handed to calculate_statistical_power: 0..MaxN
MaxN == 3
\* a report stage is given up to MaxIter iterations per configuration and kind
MaxIter == 2
\* a whole run finds up to MaxRuns result files per configuration and kind
MaxRuns == 1
\* the power table is given a baseline of up to MaxBase iterations
MaxBase == 5
\* a loader finds up to MaxFiles files
MaxFiles == 3

\* fixed-point resolution: one unit is 1/Scale
Scale == 10 * 100

\* --------------------------------------------------------- float arithmetic
NaN == [k |-> "nan", v |-> 0]
PInf == [k |-> "inf", v |-> 1]
NInf == [k |-> "inf", v |-> -1]
Fin(x) == [k |-> "fin", v |-> x]

IsNaN(x) == x.k = "nan"
IsInf(x) == x.k = "inf"
IsFin(x) == x.k = "fin"

Sgn(i) == IF i > 0 THEN 1 ELSE IF i < 0 THEN -1 ELSE 0
Abs(i) == IF i < 0 THEN -i ELSE i

\* a / b rounded to the nearest integer, halves away from zero (b # 0)
RDiv(a, b) == Sgn(a) * Sgn(b) * ((2 * Abs(a) + Abs(b)) \div (2 * Abs(b)))

RECURSIVE SqrtSearch(_, _, _)
\* the r in lo..hi with r*r <= x < (r+1)*(r+1)
SqrtSearch(x, lo, hi) ==
    IF lo >= hi THEN lo
    ELSE LET mid == (lo + hi + 1) \div 2
         IN  IF mid * mid <= x THEN SqrtSearch(x, mid, hi)
             ELSE SqrtSearch(x, lo, mid - 1)

\* square root of a non-negative integer, rounded to the nearest integer
ISqrt(x) ==
    LET r == SqrtSearch(x, 0, IF x < 46340 THEN x ELSE 46340)
    IN  IF x - r * r > r THEN r + 1 ELSE r

FNeg(x) == IF IsNaN(x) THEN NaN ELSE [k |-> x.k, v |-> -x.v]

FAbs(x) == IF IsNaN(x) THEN NaN ELSE [k |-> x.k, v |-> Abs(x.v)]

FAdd(x, y) ==
    IF IsNaN(x) \/ IsNaN(y) THEN NaN
    ELSE IF IsInf(x) /\ IsInf(y) THEN (IF x.v = y.v THEN x ELSE NaN)
    ELSE IF IsInf(x) THEN x
    ELSE IF IsInf(y) THEN y
    ELSE Fin(x.v + y.v)

FSub(x, y) == FAdd(x, FNeg(y))

FMul(x, y) ==
    IF IsNaN(x) \/ IsNaN(y) THEN NaN
    ELSE IF IsInf(x) \/ IsInf(y)
         THEN (IF x.v = 0 \/ y.v = 0 THEN NaN
               ELSE [k |-> "inf", v |-> Sgn(x.v) * Sgn(y.v)])
    ELSE Fin(RDiv(x.v * y.v, Scale))

\* numpy division: x/0 is +-inf (0/0 is NaN), never an exception
FDiv(x, y) ==
    IF IsNaN(x) \/ IsNaN(y) THEN NaN
    ELSE IF IsInf(x) /\ IsInf(y) THEN NaN
    ELSE IF IsInf(x) THEN [k |-> "inf", v |-> x.v * (IF y.v < 0 THEN -1 ELSE 1)]
    ELSE IF IsInf(y) THEN Fin(0)
    ELSE IF y.v = 0 THEN (IF x.v = 0 THEN NaN ELSE [k |-> "inf", v |-> Sgn(x.v)])
    ELSE Fin(RDiv(x.v * Scale, y.v))

FSqrt(x) ==
    IF IsNaN(x) THEN NaN
    ELSE IF IsInf(x) THEN (IF x.v > 0 THEN PInf ELSE NaN)
    ELSE IF x.v < 0 THEN NaN
    ELSE Fin(ISqrt(x.v * Scale))

\* comparisons: false as soon as one side is NaN
FLt(x, y) ==
    /\ ~IsNaN(x)
    /\ ~IsNaN(y)
    /\ IF IsInf(x) THEN (x.v < 0 /\ y # x)
       ELSE IF IsInf(y) THEN y.v > 0
       ELSE x.v < y.v

FEq(x, y) == ~IsNaN(x) /\ ~IsNaN(y) /\ x = y

FLe(x, y) == FLt(x, y) \/ FEq(x, y)

\* a whole number as a float
Num(i) == Fin(i * Scale)

\* ------------------------------------------------------------ numpy helpers
\* data[~np.isnan(data)]
DropNaN(s) == SelectSeq(s, LAMBDA x : ~IsNaN(x))

RECURSIVE FSum(_)
FSum(s) == IF s = <<>> THEN Fin(0) ELSE FAdd(Head(s), FSum(Tail(s)))

\* np.mean of a non-empty array
np_mean(s) == FDiv(FSum(s), Num(Len(s)))

RECURSIVE SumSqDev(_, _)
SumSqDev(s, m) ==
    IF s = <<>> THEN Fin(0)
    ELSE LET dev == FSub(Head(s), m)
         IN  FAdd(FMul(dev, dev), SumSqDev(Tail(s), m))

\* np.std(s, ddof=1): Bessel-corrected sample standard deviation
np_std(s) == FSqrt(FDiv(SumSqDev(s, np_mean(s)), Num(Len(s) - 1)))

\* stats.t.ppf(0.975, df): two-sided 95% critical values of Student's t
t_ppf(df) ==
    LET table == <<12706, 4303, 3182, 2776, 2571, 2447, 2365, 2306>>
    IN  Fin(IF df <= Len(table) THEN table[df] ELSE 2262)

\* ---------------------------------------------------- statistical functions
\* calculate_confidence_interval without its single-value case (bug variant)
ci_without_single_value_case(data0) ==
    LET data == DropNaN(data0)
    IN  IF Len(data) = 0
        THEN [mean |-> NaN, lower |-> NaN, upper |-> NaN, margin |-> NaN,
              std |-> NaN, n |-> 0]
        ELSE LET mean == np_mean(data)
                 std == np_std(data)
                 n == Len(data)
                 t_value == t_ppf(IF n > 1 THEN n - 1 ELSE 1)
                 margin == FMul(t_value, FDiv(std, FSqrt(Num(n))))
             IN  [mean |-> mean, lower |-> FSub(mean, margin),
                  upper |-> FAdd(mean, margin), margin |-> margin,
                  std |-> std, n |-> n]

calculate_confidence_interval(data0) ==
    LET data == DropNaN(data0)
    IN  IF Len(data) = 0
        THEN [mean |-> NaN, lower |-> NaN, upper |-> NaN, margin |-> NaN,
              std |-> NaN, n |-> 0]
        ELSE IF Len(data) = 1
        THEN [mean |-> data[1], lower |-> NaN, upper |-> NaN, margin |-> NaN,
              std |-> Fin(0), n |-> 1]
        ELSE LET mean == np_mean(data)
                 std == np_std(data)
                 n == Len(data)
                 t_value == t_ppf(n - 1)
                 margin == FMul(t_value, FDiv(std, FSqrt(Num(n))))
             IN  [mean |-> mean, lower |-> FSub(mean, margin),
                  upper |-> FAdd(mean, margin), margin |-> margin,
                  std |-> std, n |-> n]

\* a decimal literal given in thousandths (0.2 is Milli(200))
Milli(m) == Fin(RDiv(m * Scale, 1000))

\* calculate_cohens_d standardising by group 1's deviation instead of the
\* pooled one (bug variant)
cohens_d_by_group1_std(g1, g2) ==
    LET group1 == DropNaN(g1)
        grp2 == DropNaN(g2)
    IN  IF Len(group1) < 2 \/ Len(grp2) < 2 THEN NaN
        ELSE LET std1 == np_std(group1)
             IN  IF FEq(std1, Num(0)) THEN NaN
                 ELSE FDiv(FSub(np_mean(group1), np_mean(grp2)), std1)

calculate_cohens_d(g1, g2) ==
    LET group1 == DropNaN(g1)
        grp2 == DropNaN(g2)
    IN  IF Len(group1) < 2 \/ Len(grp2) < 2 THEN NaN
        ELSE LET mean1 == np_mean(group1)
                 mean2 == np_mean(grp2)
                 std1 == np_std(group1)
                 std2 == np_std(grp2)
                 n1 == Len(group1)
                 n2 == Len(grp2)
                 pooled_std ==
                     FSqrt(FDiv(FAdd(FMul(Num(n1 - 1), FMul(std1, std1)),
                                     FMul(Num(n2 - 1), FMul(std2, std2))),
                                Num(n1 + n2 - 2)))
             IN  IF FEq(pooled_std, Num(0)) THEN NaN
                 ELSE FDiv(FSub(mean1, mean2), pooled_std)

\* interpret_effect_size comparing d itself, not abs(d) (bug variant)
interpret_signed_d(d) ==
    IF IsNaN(d) THEN "Undefined"
    ELSE IF FLt(d, Milli(200)) THEN "Negligible"
    ELSE IF FLt(d, Milli(500)) THEN "Small"
    ELSE IF FLt(d, Milli(800)) THEN "Medium"
    ELSE "Large"

interpret_effect_size(d) ==
    IF IsNaN(d) THEN "Undefined"
    ELSE LET abs_d == FAbs(d)
         IN  IF FLt(abs_d, Milli(200)) THEN "Negligible"
             ELSE IF FLt(abs_d, Milli(500)) THEN "Small"
             ELSE IF FLt(abs_d, Milli(800)) THEN "Medium"
             ELSE "Large"

\* calculate_performance_overhead with the throughput sign not flipped
\* (bug variant)
overhead_throughput_not_flipped(b, c, mt) ==
    IF IsNaN(b) \/ IsNaN(c) \/ FEq(b, Num(0)) THEN NaN
    ELSE IF FEq(c, Num(0)) \/ (mt = "throughput" /\ FLt(c, Num(1))) THEN NaN
    ELSE FMul(FDiv(FSub(c, b), b), Num(100))

\* calculate_performance_overhead treating every metric type but 'latency'
\* as throughput (bug variant)
overhead_default_as_throughput(b, c, mt) ==
    IF IsNaN(b) \/ IsNaN(c) \/ FEq(b, Num(0)) THEN NaN
    ELSE IF FEq(c, Num(0)) \/ (mt = "throughput" /\ FLt(c, Num(1))) THEN NaN
    ELSE IF mt = "latency" THEN FMul(FDiv(FSub(c, b), b), Num(100))
    ELSE FMul(FDiv(FSub(b, c), b), Num(100))

calculate_performance_overhead(b, c, mt) ==
    IF IsNaN(b) \/ IsNaN(c) \/ FEq(b, Num(0)) THEN NaN
    ELSE IF FEq(c, Num(0)) \/ (mt = "throughput" /\ FLt(c, Num(1))) THEN NaN
    ELSE IF mt = "latency" THEN FMul(FDiv(FSub(c, b), b), Num(100))
    ELSE IF mt = "throughput" THEN FMul(FDiv(FSub(b, c), b), Num(100))
    ELSE FMul(FDiv(FSub(c, b), b), Num(100))

\* a power value: undefined (NaN), or the number the solver returns for an
\* effect size and a per-group sample count (left uninterpreted)
NoPower == [k |-> "nan", es |-> NaN, nobs1 |-> 0]

\* TTestIndPower().solve_power(effect_size=es, nobs1=nobs, alpha=0.05,
\* alternative='two-sided'): raises when fails, else returns a power
solve_power(es, nobs, fails) ==
    IF fails THEN [raised |-> TRUE, value |-> NoPower]
    ELSE [raised |-> FALSE, value |-> [k |-> "val", es |-> es, nobs1 |-> nobs]]

\* calculate_statistical_power without its try/except (bug variant)
power_without_except(es, nobs, fails) ==
    IF IsNaN(es) \/ nobs < 2 THEN [raised |-> FALSE, value |-> NoPower]
    ELSE solve_power(FAbs(es), nobs, fails)

\* the outcome of a call: raised is TRUE when an exception leaves the function
calculate_statistical_power(es, nobs, fails) ==
    IF IsNaN(es) \/ nobs < 2 THEN [raised |-> FALSE, value |-> NoPower]
    ELSE LET r == solve_power(FAbs(es), nobs, fails)
         IN  IF r.raised THEN [raised |-> FALSE, value |-> NoPower]
             ELSE r

\* ------------------------------------------------------- data aggregation
\* the dict calculate_confidence_interval returns for an empty sample
NoCI == [mean |-> NaN, lower |-> NaN, upper |-> NaN, margin |-> NaN,
         std |-> NaN, n |-> 0]

\* An iteration record keeps the metrics the report stages read: an attack
\* iteration its overall_success_rate, a performance iteration latency_avg,
\* throughput, cpu_usage and memory_usage.  The other keys of the records
\* (rdp/smb rates, attempt counts, p95/p99 latency, auth_overhead) are
\* aggregated the same way and only plotted or exported.
NoAttackMetrics == [present |-> FALSE, overall_success_rate |-> NoCI]

NoPerfMetrics ==
    [present |-> FALSE, latency_avg |-> NoCI, throughput |-> NoCI,
     cpu_usage |-> NoCI, memory_usage |-> NoCI]

\* the values of one key over the iterations: [it[key] for it in iters]
Column(iters, key) == [i \in 1..Len(iters) |-> iters[i][key]]

\* n = min(n_attack, n_perf) if n_attack > 0 and n_perf > 0
\*     else max(n_attack, n_perf), taking the larger count always (bug variant)
sample_count_max(n_attack, n_perf) ==
    IF n_attack > n_perf THEN n_attack ELSE n_perf

\* n = min(n_attack, n_perf) if n_attack > 0 and n_perf > 0
\*     else max(n_attack, n_perf)
sample_count(n_attack, n_perf) ==
    IF n_attack > 0 /\ n_perf > 0
    THEN (IF n_attack < n_perf THEN n_attack ELSE n_perf)
    ELSE (IF n_attack > n_perf THEN n_attack ELSE n_perf)

\* what aggregate_config_data returns for a configuration without data
NoneData(config_name) ==
    [none |-> TRUE, config |-> config_name, n |-> 0,
     attack_iterations |-> <<>>, perf_iterations |-> <<>>,
     attack_metrics |-> NoAttackMetrics, perf_metrics |-> NoPerfMetrics]

\* aggregate_config_data, given what the two loaders return for config_name
aggregate_config_data(config_name, attack_iters, perf_iters) ==
    LET n_attack == Len(attack_iters)
        n_perf == Len(perf_iters)
        nn == sample_count(n_attack, n_perf)
        attack_metrics ==
            IF attack_iters # <<>>
            THEN [present |-> TRUE,
                  overall_success_rate |->
                      calculate_confidence_interval(
                          Column(attack_iters, "overall_success_rate"))]
            ELSE NoAttackMetrics
        perf_metrics ==
            IF perf_iters # <<>>
            THEN [present |-> TRUE,
                  latency_avg |->
                      calculate_confidence_interval(Column(perf_iters, "latency_avg")),
                  throughput |->
                      calculate_confidence_interval(Column(perf_iters, "throughput")),
                  cpu_usage |->
                      calculate_confidence_interval(Column(perf_iters, "cpu_usage")),
                  memory_usage |->
                      calculate_confidence_interval(Column(perf_iters, "memory_usage"))]
            ELSE NoPerfMetrics
    IN  IF nn = 0 THEN NoneData(config_name)
        ELSE [none |-> FALSE, config |-> config_name, n |-> nn,
              attack_iterations |-> attack_iters,
              perf_iterations |-> perf_iters,
              attack_metrics |-> attack_metrics,
              perf_metrics |-> perf_metrics]

\* configs = ['baseline', 'config1', 'config2', 'config3']
config_order == <<"baseline", "config1", "config2", "config3">>

\* all_data is a dict in insertion order: a sequence of datasets
Keys(all_data) == [i \in 1..Len(all_data) |-> all_data[i].config]
Has(all_data, c) == \E i \in 1..Len(all_data) : all_data[i].config = c
Get(all_data, c) == all_data[CHOOSE i \in 1..Len(all_data) : all_data[i].config = c]

\* ------------------------------------------------------------ report stages
\* [c for c in config_order if c in all_data]
Present(order, all_data) == SelectSeq(order, LAMBDA c : Has(all_data, c))

\* metric.get('mean', 0) on data[...].get(key, {}): 0 when the dict is empty
MeanOr0(metrics, key) == IF metrics.present THEN metrics[key].mean ELSE Num(0)
MarginOr0(metrics, key) == IF metrics.present THEN metrics[key].margin ELSE Num(0)

\* x rounded to d decimals, as the format specs .1f, .2f and .3f print it
RoundTo(x, d) ==
    IF ~IsFin(x) THEN x
    ELSE LET unit == Scale \div (10 ^ d)
         IN  Fin(RDiv(x.v, unit) * unit)

\* a table cell: a formatted number (s is empty; a NaN prints as 'nan'), or a
\* fixed text
Fmt(x, d) == [s |-> "", x |-> RoundTo(x, d)]
Text(t) == [s |-> t, x |-> NaN]

\* a field that is left out of its cell
Omitted == Text("omitted")

\* the power of the baseline row: the literal 1.0
PowerOne == [k |-> "one", es |-> NaN, nobs1 |-> 0]

\* f"{power:.3f}" if not np.isnan(power) else "N/A"
PowerCell(p) == [s |-> IF p.k = "nan" THEN "N/A" ELSE "", p |-> p]

\* f"{d:.3f}" if not np.isnan(d) else "N/A"
NumOrNA(x, d) == IF IsNaN(x) THEN Text("N/A") ELSE Fmt(x, d)

\* the delta% of the comparison table: delta / base * 100 if base != 0 else 0
delta_pct(delta, base) ==
    IF ~FEq(base, Num(0)) THEN FMul(FDiv(delta, base), Num(100)) ELSE Num(0)

\* the effect-size class of a row, the baseline's row classified like any
\* other (bug variant)
row_effect_always_classified(other, cohens_d) == interpret_effect_size(cohens_d)

\* effect = interpret_effect_size(cohens_d) for a configuration other than
\* the baseline, "Baseline" for the baseline
row_effect(other, cohens_d) ==
    IF other THEN interpret_effect_size(cohens_d) ELSE "Baseline"

\* the power of a row computed with the smaller of the two sample counts
\* (bug variant)
row_power_min_n(baseline, dat, fails) ==
    calculate_statistical_power(
        calculate_cohens_d(Column(baseline.attack_iterations, "overall_success_rate"),
                           Column(dat.attack_iterations, "overall_success_rate")),
        IF baseline.n < dat.n THEN baseline.n ELSE dat.n, fails).value

\* power = calculate_statistical_power(cohens_d, data['n'])
row_power(baseline, dat, fails) ==
    calculate_statistical_power(
        calculate_cohens_d(Column(baseline.attack_iterations, "overall_success_rate"),
                           Column(dat.attack_iterations, "overall_success_rate")),
        dat.n, fails).value

\* one row of create_enhanced_comparison_table; for a configuration that is
\* not the baseline the caller has checked that the baseline's metrics exist
comparison_row(all_data, config, fails) ==
    LET dat == Get(all_data, config)
        baseline == Get(all_data, "baseline")
        success_mean == MeanOr0(dat.attack_metrics, "overall_success_rate")
        success_ci == MarginOr0(dat.attack_metrics, "overall_success_rate")
        latency_mean == MeanOr0(dat.perf_metrics, "latency_avg")
        latency_ci == MarginOr0(dat.perf_metrics, "latency_avg")
        cpu_mean == MeanOr0(dat.perf_metrics, "cpu_usage")
        mem_mean == MeanOr0(dat.perf_metrics, "memory_usage")
        other == config # "baseline"
        baseline_success == baseline.attack_metrics.overall_success_rate.mean
        baseline_latency == baseline.perf_metrics.latency_avg.mean
        baseline_cpu == baseline.perf_metrics.cpu_usage.mean
        delta_success == IF other THEN FSub(success_mean, baseline_success) ELSE Num(0)
        delta_success_pct ==
            IF other THEN delta_pct(delta_success, baseline_success) ELSE Num(0)
        delta_latency == IF other THEN FSub(latency_mean, baseline_latency) ELSE Num(0)
        delta_latency_pct ==
            IF other THEN delta_pct(delta_latency, baseline_latency) ELSE Num(0)
        delta_cpu == IF other THEN FSub(cpu_mean, baseline_cpu) ELSE Num(0)
        cohens_d ==
            IF other
            THEN calculate_cohens_d(
                     Column(baseline.attack_iterations, "overall_success_rate"),
                     Column(dat.attack_iterations, "overall_success_rate"))
            ELSE Num(0)
        effect == row_effect(other, cohens_d)
        pwr == IF other THEN row_power(baseline, dat, fails) ELSE PowerOne
    IN  [Configuration |-> config,
         n |-> dat.n,
         Success_Rate |-> Fmt(success_mean, 1),
         Success_Rate_CI |-> Fmt(success_ci, 1),
         Delta_Success_vs_Baseline |-> Fmt(delta_success, 1),
         Delta_Success_Pct |-> Fmt(delta_success_pct, 1),
         Cohens_d |-> NumOrNA(cohens_d, 3),
         Effect_Size |-> effect,
         Latency_ms |-> Fmt(latency_mean, 2),
         Latency_ms_CI |-> IF ~IsNaN(latency_ci) THEN Fmt(latency_ci, 2) ELSE Omitted,
         Delta_Latency_ms |-> Fmt(delta_latency, 2),
         Delta_Latency_Pct |-> Fmt(delta_latency_pct, 1),
         CPU_pct |-> Fmt(cpu_mean, 1),
         Memory_pct |-> Fmt(mem_mean, 1),
         Delta_CPU |-> Fmt(delta_cpu, 1),
         Statistical_Power |-> PowerCell(pwr)]

\* what a report stage leaves: whether an exception left it, whether it wrote
\* its report, and the rows of the report
NoReport == [raised |-> FALSE, saved |-> FALSE, rows |-> <<>>]
Raised == [raised |-> TRUE, saved |-> FALSE, rows |-> <<>>]
Saved(rows) == [raised |-> FALSE, saved |-> TRUE, rows |-> rows]

create_enhanced_comparison_table(all_data, fails) ==
    IF all_data = <<>> THEN NoReport
    ELSE LET configs == Present(config_order, all_data)
         IN  IF ~Has(all_data, "baseline") THEN NoReport
             ELSE LET baseline == Get(all_data, "baseline")
                      \* baseline['attack_metrics']['overall_success_rate'] and
                      \* baseline['perf_metrics']['latency_avg'] raise KeyError
                      \* on an empty dict
                      key_error ==
                          /\ \E i \in 1..Len(configs) : configs[i] # "baseline"
                          /\ \/ ~baseline.attack_metrics.present
                             \/ ~baseline.perf_metrics.present
                  IN  IF key_error THEN Raised
                      ELSE Saved([i \in 1..Len(configs) |->
                                     comparison_row(all_data, configs[i], fails)])

\* the groups of one metric that the effect-size and power stages compare
Success(dat) == Column(dat.attack_iterations, "overall_success_rate")
Latency(dat) == Column(dat.perf_iterations, "latency_avg")
Cpu(dat) == Column(dat.perf_iterations, "cpu_usage")

treatment_order == <<"config1", "config2", "config3">>

create_effect_size_analysis(all_data) ==
    IF all_data = <<>> \/ ~Has(all_data, "baseline") THEN NoReport
    ELSE LET configs == Present(treatment_order, all_data)
             baseline == Get(all_data, "baseline")
         IN  IF configs = <<>> THEN NoReport
             ELSE Saved([i \in 1..Len(configs) |->
                     LET dat == Get(all_data, configs[i])
                     IN  [Configuration |-> configs[i],
                          Success_Rate_d |->
                              calculate_cohens_d(Success(baseline), Success(dat)),
                          Latency_d |->
                              calculate_cohens_d(Latency(baseline), Latency(dat)),
                          CPU_d |-> calculate_cohens_d(Cpu(baseline), Cpu(dat))]])

\* min(baseline['n'], data['n'])
Min(a, b) == IF a < b THEN a ELSE b

Range(seq) == {seq[i] : i \in 1..Len(seq)}

\* the n of a row of the power table taken from the treatment alone
\* (bug variant)
power_table_n_of_treatment(baseline, dat) == dat.n

\* n = min(baseline['n'], data['n'])
power_table_n(baseline, dat) == Min(baseline.n, dat.n)

create_power_analysis_table(all_data, fails) ==
    IF all_data = <<>> \/ ~Has(all_data, "baseline") THEN NoReport
    ELSE LET configs == Present(treatment_order, all_data)
             baseline == Get(all_data, "baseline")
         IN  IF configs = <<>> THEN NoReport
             ELSE Saved([i \in 1..Len(configs) |->
                     LET dat == Get(all_data, configs[i])
                         nn == power_table_n(baseline, dat)
                         d_success ==
                             calculate_cohens_d(Success(baseline), Success(dat))
                         d_latency ==
                             calculate_cohens_d(Latency(baseline), Latency(dat))
                     IN  [Configuration |-> configs[i],
                          n |-> nn,
                          Success_Rate_d |-> NumOrNA(d_success, 3),
                          Success_Rate_Power |-> PowerCell(
                              calculate_statistical_power(d_success, nn, fails).value),
                          Latency_d |-> NumOrNA(d_latency, 3),
                          Latency_Power |-> PowerCell(
                              calculate_statistical_power(d_latency, nn, fails).value)]])

\* f"{x:.2f}" if x > 0 else "N/A"
PositiveOrNA(x, d) == IF FLt(Num(0), x) THEN Fmt(x, d) ELSE Text("N/A")

\* the last column of the overhead table: its fallback text is "0.0%"
MemoryOverheadCell(x) == IF ~IsNaN(x) THEN Fmt(x, 1) ELSE Text("0.0%")

\* one row of create_overhead_analysis; the caller has checked that the
\* performance metrics of the baseline and of the configuration exist
overhead_row(all_data, config) ==
    LET base == Get(all_data, "baseline").perf_metrics
        perf == Get(all_data, config).perf_metrics
        latency_overhead == calculate_performance_overhead(
            base.latency_avg.mean, perf.latency_avg.mean, "latency")
        throughput_overhead == calculate_performance_overhead(
            base.throughput.mean, perf.throughput.mean, "throughput")
        cpu_overhead == calculate_performance_overhead(
            base.cpu_usage.mean, perf.cpu_usage.mean, "other")
        memory_overhead == calculate_performance_overhead(
            base.memory_usage.mean, perf.memory_usage.mean, "other")
    IN  [Configuration |-> config,
         Latency_ms |-> PositiveOrNA(perf.latency_avg.mean, 2),
         Latency_Overhead |-> NumOrNA(latency_overhead, 2),
         Throughput_Mbps |-> PositiveOrNA(perf.throughput.mean, 2),
         Throughput_Overhead |-> NumOrNA(throughput_overhead, 2),
         CPU_pct |-> Fmt(perf.cpu_usage.mean, 1),
         CPU_Overhead |-> NumOrNA(cpu_overhead, 1),
         Memory_pct |-> Fmt(perf.memory_usage.mean, 1),
         Memory_Overhead |-> MemoryOverheadCell(memory_overhead)]

\* create_overhead_analysis without its check for the baseline: indexing
\* all_data['baseline'] raises KeyError (bug variant)
overhead_without_baseline_check(all_data) ==
    LET configs == Present(config_order, all_data)
    IN  IF \/ ~Has(all_data, "baseline")
           \/ \E i \in 1..Len(configs) :
                  ~Get(all_data, configs[i]).perf_metrics.present
        THEN Raised
        ELSE Saved([i \in 1..Len(configs) |-> overhead_row(all_data, configs[i])])

\* Configuration holds the key of the configuration; the code maps it to a
\* display label, one label per key, before it writes the report
create_overhead_analysis(all_data) ==
    IF ~Has(all_data, "baseline") THEN NoReport
    ELSE LET configs == Present(config_order, all_data)
             \* ['perf_metrics']['latency_avg'] raises KeyError on an empty dict
             key_error ==
                 \E i \in 1..Len(configs) :
                     ~Get(all_data, configs[i]).perf_metrics.present
         IN  IF key_error THEN Raised
             ELSE Saved([i \in 1..Len(configs) |-> overhead_row(all_data, configs[i])])

RECURSIVE Concat(_)
\* the rows of all configurations, one after the other
Concat(seqs) == IF seqs = <<>> THEN <<>> ELSE Head(seqs) \o Concat(Tail(seqs))

\* the rows export_individual_iterations writes for one configuration:
\* zip() stops at the shorter of the two lists
export_rows(dat) ==
    [i \in 1..Min(Len(dat.attack_iterations), Len(dat.perf_iterations)) |->
        [Configuration |-> dat.config,
         Iteration |-> i,
         Success_Rate |-> dat.attack_iterations[i].overall_success_rate,
         Latency_Avg |-> dat.perf_iterations[i].latency_avg,
         Throughput |-> dat.perf_iterations[i].throughput,
         CPU_Usage |-> dat.perf_iterations[i].cpu_usage,
         Memory_Usage |-> dat.perf_iterations[i].memory_usage]]

\* all_data.items() runs in insertion order
export_individual_iterations(all_data) ==
    Saved(Concat([i \in 1..Len(all_data) |-> export_rows(all_data[i])]))

\* the configurations a chart draws, in drawing order; a chart of no data
\* is not drawn
chart_configs(all_data) ==
    IF all_data = <<>> THEN <<>> ELSE Present(config_order, all_data)

\* ------------------------------------------------------------ file loaders
\* A result file is [path, kind, ...]: path is its place in the order of the
\* paths, kind tells what reading it does:
\*   "unreadable"    open() raises
\*   "invalid_json"  json.load() raises
\*   "not_object"    the JSON value has no .get (a list, a number): the
\*                   extraction raises
\*   "object"        the try block runs to its end
\* An attack file holds has_rate / rate, the LateralMovementSuccessRate of its
\* Metrics if there is one.  A performance file holds latency (the AvgLatency
\* of each Latency item, 0 for none), throughput (Success and ThroughputMbps
\* of each Throughput item), cpu and memory (0 for none).

RECURSIVE InsertByPath(_, _)
\* file put into the sorted list sorted_files at its place
InsertByPath(file, sorted_files) ==
    IF sorted_files = <<>> THEN <<file>>
    ELSE IF file.path <= Head(sorted_files).path THEN <<file>> \o sorted_files
    ELSE <<Head(sorted_files)>> \o InsertByPath(file, Tail(sorted_files))

RECURSIVE SortByPath(_)
\* sorted(files)
SortByPath(fs) ==
    IF fs = <<>> THEN <<>> ELSE InsertByPath(Head(fs), SortByPath(Tail(fs)))

\* find_config_files, given the files the globs discover, in discovery order
find_config_files(discovered) == SortByPath(discovered)

\* the try block of a loader runs to its end on this file
Reads(file) == file.kind = "object"

\* the record load_attack_iterations appends for a file it reads:
\* metrics.get('LateralMovementSuccessRate', 0)
attack_record(file) ==
    [overall_success_rate |-> IF file.has_rate THEN Num(file.rate) ELSE Num(0)]

\* np.mean(values) if values else 0
MeanOr0If(values) == IF values # <<>> THEN np_mean(values) ELSE Num(0)

\* the record load_performance_iterations appends for a file it reads: items
\* without a (non-zero) value are left out of the means, and so are the
\* throughput items of a failed test
perf_record(file) ==
    LET avg_latencies == SelectSeq(file.latency, LAMBDA x : x # 0)
        measured == SelectSeq(file.throughput, LAMBDA t : t.Success /\ t.Mbps # 0)
    IN  [latency_avg |->
             MeanOr0If([i \in 1..Len(avg_latencies) |-> Num(avg_latencies[i])]),
         throughput |-> MeanOr0If([i \in 1..Len(measured) |-> Num(measured[i].Mbps)]),
         cpu_usage |-> Num(file.cpu),
         memory_usage |-> Num(file.memory)]

RECURSIVE attack_loop_ending_at_failure(_, _)
\* the loop of load_attack_iterations leaving at the first file that fails
\* (bug variant)
attack_loop_ending_at_failure(fs, its) ==
    IF fs = <<>> THEN its
    ELSE IF ~Reads(Head(fs)) THEN its
    ELSE attack_loop_ending_at_failure(Tail(fs), Append(its, attack_record(Head(fs))))

RECURSIVE attack_loop(_, _)
\* for file_path in files: try: ... iterations.append(...)
\*                         except Exception: continue
attack_loop(fs, its) ==
    IF fs = <<>> THEN its
    ELSE IF ~Reads(Head(fs)) THEN attack_loop(Tail(fs), its)
    ELSE attack_loop(Tail(fs), Append(its, attack_record(Head(fs))))

load_attack_iterations(discovered) == attack_loop(find_config_files(discovered), <<>>)

RECURSIVE perf_loop(_, _)
perf_loop(fs, its) ==
    IF fs = <<>> THEN its
    ELSE IF ~Reads(Head(fs)) THEN perf_loop(Tail(fs), its)
    ELSE perf_loop(Tail(fs), Append(its, perf_record(Head(fs))))

load_performance_iterations(discovered) ==
    perf_loop(find_config_files(discovered), <<>>)

\* ------------------------------------------------------------------ loading
\* load_all_configurations with the configurations visited last to first
\* (bug variant)
load_last_to_first(files) ==
    LET results == [i \in 1..Len(config_order) |->
            LET c == config_order[Len(config_order) + 1 - i]
            IN  aggregate_config_data(c, files[c].attack, files[c].perf)]
    IN  SelectSeq(results, LAMBDA d : ~d.none)

\* load_all_configurations keeping a configuration without data (bug variant)
load_keeping_empty(files) ==
    [i \in 1..Len(config_order) |->
        LET c == config_order[i]
        IN  aggregate_config_data(c, files[c].attack, files[c].perf)]

\* files[c] holds the iteration lists the two loaders return for
\* configuration c; the result is the dict all_data in insertion order, and the
\* empty sequence stands for the None of an empty dict
load_all_configurations(files) ==
    LET results == [i \in 1..Len(config_order) |->
            LET c == config_order[i]
            IN  aggregate_config_data(c, files[c].attack, files[c].perf)]
    IN  SelectSeq(results, LAMBDA d : ~d.none)

\* -------------------------------------------------------------- input sets
Samples == {NaN, PInf, NInf} \cup {Num(i) : i \in 1..MaxVal}

\* the groups of calculate_cohens_d: as Samples, one infinity
GroupSamples == {NaN, PInf} \cup {Num(i) : i \in 1..MaxVal}

EffectSizes == {NaN, PInf, NInf} \cup {Fin(RDiv(i * Scale, 1000)) : i \in -MaxD..MaxD}

Measurements == {NaN, PInf, NInf} \cup {Fin(RDiv(i * Scale, 2)) : i \in -MaxHalf..MaxHalf}

MetricTypes == {"latency", "throughput", "other"}

\* an attack iteration with success rate v, and a performance iteration at
\* load level v (0: nothing was measured, every metric is 0)
AttackIteration(v) == [overall_success_rate |-> Num(v)]
PerfIteration(v) ==
    [latency_avg |-> Num(v), throughput |-> Num(2 * v), cpu_usage |-> Num(3 * v),
     memory_usage |-> Num(4 * v)]

Levels == {0, 1}

RECURSIVE SeqsUpTo(_, _)
\* all sequences over S of length at most n
SeqsUpTo(S, n) ==
    IF n = 0 THEN {<<>>}
    ELSE LET shorter == SeqsUpTo(S, n - 1)
         IN  shorter \cup {Append(s, x) : s \in shorter, x \in S}

\* the iteration lists of one configuration: up to MaxIter attack iterations
\* of any levels
AttackLists == SeqsUpTo({AttackIteration(v) : v \in Levels}, MaxIter)

\* up to MaxIter attack iterations, all at one level
EvenAttackLists ==
    {[i \in 1..k |-> AttackIteration(v)] : k \in 0..MaxIter, v \in Levels}

\* up to MaxIter performance iterations, all at one level
PerfLists == {[i \in 1..k |-> PerfIteration(v)] : k \in 0..MaxIter, v \in Levels}

\* up to MaxIter performance iterations under load
BusyPerfLists == {[i \in 1..k |-> PerfIteration(1)] : k \in 0..MaxIter}

\* the files of a baseline with the same number of attack and performance
\* iterations, 1..MaxBase of them, all at one level
BaselineFiles ==
    {[attack |-> [i \in 1..k |-> AttackIteration(v)],
      perf |-> [i \in 1..k |-> PerfIteration(v)]] : k \in 1..MaxBase, v \in Levels}

NoFiles == [c \in Range(config_order) |-> [attack |-> <<>>, perf |-> <<>>]]

\* the result directories of a whole run: configuration number k has up to
\* MaxRuns attack and performance files, run i at level (k + i) mod 2
RunFiles(na, np) ==
    [c \in Range(config_order) |->
        LET k == CHOOSE j \in 1..Len(config_order) : config_order[j] = c
        IN  [attack |-> [i \in 1..na[c] |-> AttackIteration((k + i) % 2)],
             perf |-> [i \in 1..np[c] |-> PerfIteration((k + i) % 2)]]]

Directories ==
    {RunFiles(na, np) : na \in [Range(config_order) -> 0..MaxRuns],
                        np \in [Range(config_order) -> 0..MaxRuns]}

\* what reading a file can fail with
Failures == {"unreadable", "invalid_json", "not_object"}

\* the attack files: the three failures, an object without the rate, and an
\* object with the rate 1
AttackContents ==
    {[kind |-> k, has_rate |-> FALSE, rate |-> 0] : k \in Failures \cup {"object"}}
    \cup {[kind |-> "object", has_rate |-> TRUE, rate |-> 1]}

\* the performance files: the three failures, an object without any test,
\* and an object with two latency items (one without a value), two
\* throughput items (one of a failed test) and both utilizations
PerfContents ==
    {[kind |-> k, latency |-> <<>>, throughput |-> <<>>, cpu |-> 0, memory |-> 0] :
        k \in Failures \cup {"object"}}
    \cup {[kind |-> "object", latency |-> <<1, 0>>,
           throughput |-> <<[Success |-> TRUE, Mbps |-> 2],
                            [Success |-> FALSE, Mbps |-> 1]>>,
           cpu |-> 3, memory |-> 4]}

\* the orders in which k paths can be discovered
Orders(k) == {f \in [1..k -> 1..k] : \A i, j \in 1..k : i # j => f[i] # f[j]}

\* k discovered files: file i has the path order[i] and the content c[i]
Discovered(k, order, c) == [i \in 1..k |-> [path |-> order[i]] @@ c[i]]

\* -------------------------------------------------------------------- state
VARIABLES
    fn,              \* the function being applied ("none" between calls)
    data,            \* its sample list (group1 of calculate_cohens_d)
    group2,          \* second sample list of calculate_cohens_d
    baseline_value,  \* arguments of calculate_performance_overhead
    config_value,
    metric_type,
    effect_size,     \* d of interpret_effect_size / calculate_statistical_power
    n,               \* n of calculate_statistical_power
    solver_fails,    \* whether solve_power raises in this call
    ci,              \* dict returned by calculate_confidence_interval
    ret,             \* float returned by cohens_d / performance_overhead
    label,           \* string returned by interpret_effect_size
    power,           \* value returned by calculate_statistical_power
    raised,          \* TRUE when the call ended in an exception
    files,           \* per configuration, the iterations its result files hold
    dataset,         \* what aggregate_config_data returned
    all_data,        \* what load_all_configurations returned
    charts,          \* the charts drawn so far, each with its configurations
    reports,         \* the report every table stage left
    pc,              \* where main is
    invoked,         \* the stages main has called so far, in call order
    exit_status,     \* exit status of the process (-1 while it runs)
    found,           \* the files of one configuration and kind, as discovered
    iterations       \* the list a loader returned

\* arguments and results of the statistical functions
args == <<data, group2, baseline_value, config_value, metric_type,
          effect_size, n, ci, ret, label, power>>

\* the run of the pipeline
run == <<files, dataset, all_data, charts, reports, pc, invoked, exit_status>>

\* a call of a loader
load == <<found, iterations>>

vars == <<fn, solver_fails, raised, args, run, load>>

\* a call of function f: arguments and results not named keep their defaults
Call(f, d, g2, b, c, mt, es, nn, fl, rci, r, lb, pw, ex) ==
    /\ fn' = f
    /\ data' = d
    /\ group2' = g2
    /\ baseline_value' = b
    /\ config_value' = c
    /\ metric_type' = mt
    /\ effect_size' = es
    /\ n' = nn
    /\ solver_fails' = fl
    /\ ci' = rci
    /\ ret' = r
    /\ label' = lb
    /\ power' = pw
    /\ raised' = ex
    /\ UNCHANGED <<run, load>>

NoReports == [comparison |-> NoReport, effect_size |-> NoReport,
              power |-> NoReport, overhead |-> NoReport, export |-> NoReport]

\* no function is being applied
Idle ==

    /\ fn = "none"
    /\ data = <<>>
    /\ group2 = <<>>
    /\ baseline_value = NaN
    /\ config_value = NaN
    /\ metric_type = ""
    /\ effect_size = NaN
    /\ n = 0
    /\ solver_fails = FALSE
    /\ ci = NoCI
    /\ ret = NaN
    /\ label = ""
    /\ power = NoPower
    /\ raised = FALSE

\* nothing was loaded
NoRun ==
    /\ dataset = NoneData("")
    /\ all_data = <<>>
    /\ charts = <<>>
    /\ reports = NoReports
    /\ invoked = <<>>
    /\ exit_status = -1
    /\ found = <<>>
    /\ iterations = <<>>

Init ==
    /\ Idle
    /\ NoRun
    /\ files = NoFiles
    /\ pc = "none"

CallConfidenceInterval ==
    /\ fn = "none"
    /\ \E d \in SeqsUpTo(Samples, MaxLen) :
           Call("calculate_confidence_interval", d, <<>>, NaN, NaN, "", NaN, 0,
                FALSE, calculate_confidence_interval(d), NaN, "", NoPower, FALSE)

CallCohensD ==
    /\ fn = "none"
    /\ \E g1 \in SeqsUpTo(GroupSamples, MaxLen), g2 \in SeqsUpTo(GroupSamples, MaxLen2) :
           Call("calculate_cohens_d", g1, g2, NaN, NaN, "", NaN, 0,
                FALSE, NoCI, calculate_cohens_d(g1, g2), "", NoPower, FALSE)

CallInterpretEffectSize ==
    /\ fn = "none"
    /\ \E d \in EffectSizes :
           Call("interpret_effect_size", <<>>, <<>>, NaN, NaN, "", d, 0,
                FALSE, NoCI, NaN, interpret_effect_size(d), NoPower, FALSE)

CallPerformanceOverhead ==
    /\ fn = "none"
    /\ \E b \in Measurements, c \in Measurements, mt \in MetricTypes :
           Call("calculate_performance_overhead", <<>>, <<>>, b, c, mt, NaN, 0,
                FALSE, NoCI, calculate_performance_overhead(b, c, mt), "",
                NoPower, FALSE)

CallStatisticalPower ==
    /\ fn = "none"
    /\ \E es \in EffectSizes, nn \in 0..MaxN, fl \in BOOLEAN :
           LET r == calculate_statistical_power(es, nn, fl)
           IN  Call("calculate_statistical_power", <<>>, <<>>, NaN, NaN, "", es,
                    nn, fl, NoCI, NaN, "", r.value, r.raised)

\* the call returns; the engine keeps no state between calls
Return ==
    /\ fn # "none"
    /\ fn' = "none"
    /\ data' = <<>>
    /\ group2' = <<>>
    /\ baseline_value' = NaN
    /\ config_value' = NaN
    /\ metric_type' = ""
    /\ effect_size' = NaN
    /\ n' = 0
    /\ solver_fails' = FALSE
    /\ ci' = NoCI
    /\ ret' = NaN
    /\ label' = ""
    /\ power' = NoPower
    /\ raised' = FALSE
    /\ UNCHANGED <<run, load>>

Next ==
    \/ CallConfidenceInterval
    \/ CallCohensD
    \/ CallInterpretEffectSize
    \/ CallPerformanceOverhead
    \/ CallStatisticalPower
    \/ Return

Spec == Init /\ [][Next]_vars

\* ------------------------------------------- the stages, one call at a time
\* the files of a baseline and of one treatment configuration
TwoConfigs(treatment, a0, p0, a1, p1) ==
    [c \in Range(config_order) |->
        IF c = "baseline" THEN [attack |-> a0, perf |-> p0]
        ELSE IF c = treatment THEN [attack |-> a1, perf |-> p1]
        ELSE [attack |-> <<>>, perf |-> <<>>]]

\* a call of stage f on the files fl, leaving dataset d and the reports r
CallStage(f, fl, d, r, sf, ex) ==
    /\ fn' = f
    /\ files' = fl
    /\ dataset' = d
    /\ all_data' = load_all_configurations(fl)
    /\ reports' = r
    /\ solver_fails' = sf
    /\ raised' = ex
    /\ UNCHANGED <<args, charts, pc, invoked, exit_status, load>>

CallAggregateConfigData ==
    /\ fn = "none"
    /\ \E c \in Range(config_order), a \in AttackLists, p \in PerfLists :
           CallStage("aggregate_config_data",
                     [NoFiles EXCEPT ![c] = [attack |-> a, perf |-> p]],
                     aggregate_config_data(c, a, p), NoReports, FALSE, FALSE)

CallComparisonTable ==
    /\ fn = "none"
    /\ \E a0 \in EvenAttackLists, p0 \in PerfLists, a1 \in AttackLists,
          p1 \in BusyPerfLists, sf \in BOOLEAN :
           LET fl == TwoConfigs("config1", a0, p0, a1, p1)
               r == create_enhanced_comparison_table(load_all_configurations(fl), sf)
           IN  CallStage("create_enhanced_comparison_table", fl, NoneData(""),
                         [NoReports EXCEPT !.comparison = r], sf, r.raised)

CallOverheadAnalysis ==
    /\ fn = "none"
    /\ \E p0 \in PerfLists, p1 \in PerfLists, a0 \in SeqsUpTo({AttackIteration(1)}, 1) :
           LET fl == TwoConfigs("config2", a0, p0, a0, p1)
               loaded == load_all_configurations(fl)
               r == create_overhead_analysis(loaded)
           IN  /\ loaded # <<>>
               /\ CallStage("create_overhead_analysis", fl, NoneData(""),
                            [NoReports EXCEPT !.overhead = r], FALSE, r.raised)

CallPowerAnalysisTable ==
    /\ fn = "none"
    /\ \E b \in BaselineFiles, a1 \in AttackLists, p1 \in BusyPerfLists,
          sf \in BOOLEAN :
           LET fl == TwoConfigs("config3", b.attack, b.perf, a1, p1)
               r == create_power_analysis_table(load_all_configurations(fl), sf)
           IN  CallStage("create_power_analysis_table", fl, NoneData(""),
                         [NoReports EXCEPT !.power = r], sf, r.raised)

\* the stage returns
ReturnStage ==
    /\ fn \in {"aggregate_config_data", "create_enhanced_comparison_table",
               "create_overhead_analysis", "create_power_analysis_table"}
    /\ fn' = "none"
    /\ files' = NoFiles
    /\ dataset' = NoneData("")
    /\ all_data' = <<>>
    /\ reports' = NoReports
    /\ solver_fails' = FALSE
    /\ raised' = FALSE
    /\ UNCHANGED <<args, charts, pc, invoked, exit_status, load>>

NextStages ==
    \/ CallAggregateConfigData
    \/ CallComparisonTable
    \/ CallOverheadAnalysis
    \/ CallPowerAnalysisTable
    \/ ReturnStage

SpecStages == Init /\ [][NextStages]_vars

\* ------------------------------------------------------------ the loaders
\* a call of loader f on the discovered files d, returning its
CallLoader(f, d, its) ==
    /\ fn' = f
    /\ found' = d
    /\ iterations' = its
    /\ UNCHANGED <<solver_fails, raised, args, run>>

CallLoadAttackIterations ==
    /\ fn = "none"
    /\ \E k \in 0..MaxFiles :
           \E order \in Orders(k), c \in [1..k -> AttackContents] :
               LET d == Discovered(k, order, c)
               IN  CallLoader("load_attack_iterations", d, load_attack_iterations(d))

CallLoadPerformanceIterations ==
    /\ fn = "none"
    /\ \E k \in 0..MaxFiles :
           \E order \in Orders(k), c \in [1..k -> PerfContents] :
               LET d == Discovered(k, order, c)
               IN  CallLoader("load_performance_iterations", d,
                              load_performance_iterations(d))

\* the loader returns
ReturnLoader ==
    /\ fn \in {"load_attack_iterations", "load_performance_iterations"}
    /\ fn' = "none"
    /\ found' = <<>>
    /\ iterations' = <<>>
    /\ UNCHANGED <<solver_fails, raised, args, run>>

NextLoad ==
    \/ CallLoadAttackIterations
    \/ CallLoadPerformanceIterations
    \/ ReturnLoader

SpecLoad == Init /\ [][NextLoad]_vars

\* ------------------------------------------------------------------- main
\* main goes on after the load even without data (bug variant)
after_load_always_on(loaded) == "lateral_movement_chart"

\* if not all_data: return
after_load(loaded) == IF loaded = <<>> THEN "return" ELSE "lateral_movement_chart"

InitMain ==
    /\ Idle
    /\ NoRun
    /\ files \in Directories
    /\ pc = "load"

LoadAllConfigurations ==
    /\ pc = "load"
    /\ all_data' = load_all_configurations(files)
    /\ invoked' = Append(invoked, "load_all_configurations")
    /\ pc' = after_load(all_data')
    /\ UNCHANGED <<fn, solver_fails, raised, args, load, files, dataset, charts, reports,
                   exit_status>>

\* a chart stage: it draws the present configurations and main goes on
Chart(name, next) ==
    /\ pc = name
    /\ charts' = Append(charts, [name |-> name, configs |-> chart_configs(all_data)])
    /\ invoked' = Append(invoked, name)
    /\ pc' = next
    /\ UNCHANGED <<fn, solver_fails, raised, args, load, files, dataset, all_data, reports,
                   exit_status>>

LateralMovementChart == Chart("lateral_movement_chart", "attack_breakdown_chart")
AttackBreakdownChart == Chart("attack_breakdown_chart", "latency_chart")
LatencyChart == Chart("latency_chart", "throughput_chart")
ThroughputChart == Chart("throughput_chart", "resource_utilization_chart")
ResourceUtilizationChart == Chart("resource_utilization_chart", "heatmap")
Heatmap == Chart("heatmap", "comparison")

\* a report stage leaving r: an exception it raises is not caught by main
\* and ends the process with status 1
Stage(name, next, r, sf) ==
    /\ pc = name
    /\ reports' = [reports EXCEPT ![name] = r]
    /\ invoked' = Append(invoked, name)
    /\ solver_fails' = sf
    /\ raised' = r.raised
    /\ pc' = IF r.raised THEN "done" ELSE next
    /\ exit_status' = IF r.raised THEN 1 ELSE exit_status
    /\ UNCHANGED <<fn, args, load, files, dataset, all_data, charts>>

ComparisonTable ==
    \E sf \in BOOLEAN :
        Stage("comparison", "effect_size",
              create_enhanced_comparison_table(all_data, sf), sf)

EffectSizeAnalysis ==
    Stage("effect_size", "power", create_effect_size_analysis(all_data), FALSE)

PowerAnalysisTable ==
    \E sf \in BOOLEAN :
        Stage("power", "overhead", create_power_analysis_table(all_data, sf), sf)

OverheadAnalysis ==
    Stage("overhead", "export", create_overhead_analysis(all_data), FALSE)

ExportIndividualIterations ==
    Stage("export", "return", export_individual_iterations(all_data), FALSE)

\* main returns and the interpreter exits with status 0
Exit ==
    /\ pc = "return"
    /\ pc' = "done"
    /\ exit_status' = 0
    /\ UNCHANGED <<fn, solver_fails, raised, args, load, files, dataset, all_data, charts,
                   reports, invoked>>

NextMain ==
    \/ LoadAllConfigurations
    \/ LateralMovementChart
    \/ AttackBreakdownChart
    \/ LatencyChart
    \/ ThroughputChart
    \/ ResourceUtilizationChart
    \/ Heatmap
    \/ ComparisonTable
    \/ EffectSizeAnalysis
    \/ PowerAnalysisTable
    \/ OverheadAnalysis
    \/ ExportIndividualIterations
    \/ Exit

SpecMain == InitMain /\ [][NextMain]_vars

\* ------------------------------------------------------------------ claims
\* number of entries that are not NaN / that are finite
NonNaNCount(s) == Cardinality({i \in 1..Len(s) : ~IsNaN(s[i])})
FiniteCount(s) == Cardinality({i \in 1..Len(s) : IsFin(s[i])})
OnlyFinite(s) == SelectSeq(s, LAMBDA x : IsFin(x))
\* every entry equals every other: a sample without variance
Constant(s) == \A i, j \in 1..Len(s) : s[i] = s[j]

\* C1: calculate_confidence_interval never raises on a degenerate sample:
\* with no value left after the NaN filter it returns n = 0 and NaN for mean,
\* lower, upper, margin and std; with exactly one value left it returns n = 1,
\* mean = that value, std = 0 and NaN for lower, upper and margin.
C1_DegenerateShape ==
    fn = "calculate_confidence_interval" =>
        /\ raised = FALSE
        /\ NonNaNCount(data) = 0 =>
               /\ ci.n = 0
               /\ IsNaN(ci.mean) /\ IsNaN(ci.lower) /\ IsNaN(ci.upper)
               /\ IsNaN(ci.margin) /\ IsNaN(ci.std)
        /\ NonNaNCount(data) = 1 =>
               /\ ci.n = 1
               /\ ci.mean = data[CHOOSE i \in 1..Len(data) : ~IsNaN(data[i])]
               /\ ci.std = Fin(0)
               /\ IsNaN(ci.lower) /\ IsNaN(ci.upper) /\ IsNaN(ci.margin)

\* a single value left after NaN entries were filtered out
C1_Witness ==
    /\ fn = "calculate_confidence_interval"
    /\ Len(data) >= 2
    /\ NonNaNCount(data) = 1
    /\ ci.n = 1
    /\ IsFin(ci.mean)

\* C2: calculate_cohens_d returns NaN exactly when a group has fewer than two
\* values after filtering or the pooled standard deviation is 0 (both groups
\* without variance); in every other case it returns a defined number whose
\* sign is that of mean_A - mean_B.
C2_UndefinedExactlyWhen ==
    fn = "calculate_cohens_d" =>
        LET a == DropNaN(data)
            b == DropNaN(group2)
            degenerate == Len(a) < 2 \/ Len(b) < 2 \/ (Constant(a) /\ Constant(b))
        IN  /\ IsNaN(ret) <=> degenerate
            /\ ~degenerate =>
                   /\ IsFin(ret)
                   /\ Sgn(ret.v) = Sgn(FSub(FMul(FSum(a), Num(Len(b))),
                                            FMul(FSum(b), Num(Len(a)))).v)

\* C3: calculate_performance_overhead returns NaN whenever the baseline is NaN
\* or 0 or the configuration value is NaN or 0, and for 'throughput' whenever
\* the configuration value is below 1; for every other input the result is a
\* defined number.
C3_UndefinedOnlyWhen ==
    fn = "calculate_performance_overhead" =>
        LET invalid == \/ IsNaN(baseline_value)
                       \/ IsNaN(config_value)
                       \/ baseline_value = Fin(0)
                       \/ config_value = Fin(0)
            below == metric_type = "throughput" /\ FLt(config_value, Num(1))
        IN  IsNaN(ret) <=> (invalid \/ below)

\* C4 as stated, for finite values: for every (baseline, config) pair the
\* 'latency' and the 'throughput' overhead are both undefined or are each
\* other's negation.
C4_SignFlipEveryPair ==
    /\ fn = "calculate_performance_overhead"
    /\ metric_type = "latency"
    /\ IsFin(baseline_value)
    /\ IsFin(config_value)
    => LET t == calculate_performance_overhead(baseline_value, config_value,
                                               "throughput")
       IN  IF IsNaN(ret) THEN IsNaN(t) ELSE t = FNeg(ret)

\* C4 as amended: whenever the 'throughput' overhead of a pair is defined, the
\* 'latency' overhead of the same pair is defined and is its negation; a pair
\* with a defined 'latency' overhead has an undefined 'throughput' overhead
\* exactly when the configuration value is below 1.
C4_SignFlipWhenDefined ==
    fn = "calculate_performance_overhead" =>
        LET l == calculate_performance_overhead(baseline_value, config_value,
                                                "latency")
            t == calculate_performance_overhead(baseline_value, config_value,
                                                "throughput")
        IN  /\ metric_type = "latency" => ret = l
            /\ metric_type = "throughput" => ret = t
            /\ ~IsNaN(t) => (~IsNaN(l) /\ l = FNeg(t))
            /\ ~IsNaN(l) => (IsNaN(t) <=> FLt(config_value, Num(1)))

\* a throughput overhead that is defined and not zero
C4_Witness ==
    /\ fn = "calculate_performance_overhead"
    /\ metric_type = "throughput"
    /\ IsFin(ret)
    /\ ret.v # 0

\* C5: a defined overhead is (config - baseline) / baseline * 100 for
\* 'latency' and for every other metric type, (baseline - config) / baseline
\* * 100 for 'throughput' (equal to within the rounding of the quotient; an
\* infinite configuration value gives the infinity of the matching sign).
C5_OverheadFormula ==
    fn = "calculate_performance_overhead" /\ ~IsNaN(ret) =>
        LET b == baseline_value
            c == config_value
            flip == IF metric_type = "throughput" THEN -1 ELSE 1
        IN  /\ IsFin(b)
            /\ IsFin(c) =>
                   /\ IsFin(ret)
                   /\ 2 * Abs(ret.v * b.v - flip * 100 * Scale * (c.v - b.v))
                          <= 100 * Abs(b.v)
            /\ IsInf(c) => (IsInf(ret) /\ ret.v = flip * c.v * Sgn(b.v))

\* a defined, non-zero overhead of a metric that is neither latency nor
\* throughput
C5_Witness ==
    /\ fn = "calculate_performance_overhead"
    /\ metric_type = "other"
    /\ IsFin(ret)
    /\ ret.v # 0

\* C6: the statistic functions ignore every non-finite entry: the n that
\* calculate_confidence_interval reports is the number of finite entries, and
\* both functions return what they return for the finite entries alone.
C6_IgnoresNonFinite ==
    /\ fn = "calculate_confidence_interval" =>
           /\ ci.n = FiniteCount(data)
           /\ ci = calculate_confidence_interval(OnlyFinite(data))
    /\ fn = "calculate_cohens_d" =>
           ret = calculate_cohens_d(OnlyFinite(data), OnlyFinite(group2))

\* C7: for every sample with effective n >= 2, lower <= mean <= upper with
\* lower = mean - margin and upper = mean + margin, margin > 0 when std > 0
\* and margin = 0 when std = 0.
C7_IntervalContainsMean ==
    fn = "calculate_confidence_interval" /\ FiniteCount(data) >= 2 =>
        /\ FLe(ci.lower, ci.mean)
        /\ FLe(ci.mean, ci.upper)
        /\ FEq(ci.lower, FSub(ci.mean, ci.margin))
        /\ FEq(ci.upper, FAdd(ci.mean, ci.margin))
        /\ FLt(Num(0), ci.std) => FLt(Num(0), ci.margin)
        /\ FEq(ci.std, Num(0)) => FEq(ci.margin, Num(0))

\* C8: calculate_cohens_d is antisymmetric: d(B, A) is undefined exactly when
\* d(A, B) is, and otherwise d(B, A) = -d(A, B).
C8_Antisymmetric ==
    fn = "calculate_cohens_d" =>
        LET swapped == calculate_cohens_d(group2, data)
        IN  IF IsNaN(ret) THEN IsNaN(swapped) ELSE swapped = FNeg(ret)

\* a defined, non-zero effect size between groups of different sizes
C8_Witness ==
    /\ fn = "calculate_cohens_d"
    /\ IsFin(ret)
    /\ ret.v # 0
    /\ NonNaNCount(data) # NonNaNCount(group2)

\* C9: interpret_effect_size labels d by |d| with half-open buckets: below 0.2
\* 'Negligible', from 0.2 below 0.5 'Small', from 0.5 below 0.8 'Medium', from
\* 0.8 on 'Large', and NaN 'Undefined'; d and -d get the same label.
C9_Buckets ==
    fn = "interpret_effect_size" =>
        LET a == Abs(effect_size.v)
        IN  /\ label = IF IsNaN(effect_size) THEN "Undefined"
                       ELSE IF IsInf(effect_size) THEN "Large"
                       ELSE IF 10 * a < 2 * Scale THEN "Negligible"
                       ELSE IF 10 * a < 5 * Scale THEN "Small"
                       ELSE IF 10 * a < 8 * Scale THEN "Medium"
                       ELSE "Large"
            /\ interpret_effect_size(FNeg(effect_size)) = label

\* d = -0.2, the lower edge of 'Small' on the negative side
C9_Witness ==
    /\ fn = "interpret_effect_size"
    /\ IsFin(effect_size)
    /\ 10 * effect_size.v = -2 * Scale
    /\ label = "Small"

\* C10: calculate_statistical_power never raises; it returns NaN when the
\* effect size is NaN, when n < 2 and when the power solver fails; otherwise
\* it returns the solver's power for |effect size| and n, so d and -d give
\* the same power.
C10_PowerUndefinedNeverRaises ==
    fn = "calculate_statistical_power" =>
        /\ raised = FALSE
        /\ IF IsNaN(effect_size) \/ n < 2 \/ solver_fails
           THEN power = NoPower
           ELSE power = [k |-> "val", es |-> FAbs(effect_size), nobs1 |-> n]
        /\ calculate_statistical_power(FNeg(effect_size), n, solver_fails).value
               = power

\* the solver failed on a negative effect size and n = 2, and the call
\* returned NaN
C10_Witness ==
    /\ fn = "calculate_statistical_power"
    /\ solver_fails
    /\ n = 2
    /\ IsFin(effect_size)
    /\ effect_size.v < 0
    /\ power = NoPower
    /\ raised = FALSE

\* the iteration lists aggregate_config_data was given
Aggregated == files[dataset.config]

\* C11: aggregate_config_data sets n to the smaller of the two iteration
\* counts when both are non-zero, to the non-zero one when exactly one is
\* non-zero, and to 0 when both are zero.
C11_SampleCount ==
    fn = "aggregate_config_data" =>
        LET n_attack == Len(Aggregated.attack)
            n_perf == Len(Aggregated.perf)
        IN  /\ (n_attack > 0 /\ n_perf > 0) =>
                   /\ dataset.n \in {n_attack, n_perf}
                   /\ dataset.n <= n_attack
                   /\ dataset.n <= n_perf
            /\ (n_attack > 0 /\ n_perf = 0) => dataset.n = n_attack
            /\ (n_attack = 0 /\ n_perf > 0) => dataset.n = n_perf
            /\ (n_attack = 0 /\ n_perf = 0) => dataset.n = 0

\* two attack iterations and one performance iteration give n = 1
C11_Witness ==
    /\ fn = "aggregate_config_data"
    /\ Len(Aggregated.attack) = 2
    /\ Len(Aggregated.perf) = 1
    /\ dataset.n = 1

\* the configurations that have at least one iteration of either kind
WithData == {c \in Range(config_order) :
                Len(files[c].attack) > 0 \/ Len(files[c].perf) > 0}

Loaded == pc # "load"

\* C12: a configuration with n = 0 is left out of the loaded data without
\* ending the load: the result holds exactly the configurations with n > 0,
\* those after an empty one included.
C12_ExactlyConfigsWithData ==
    Loaded =>
        /\ Range(Keys(all_data)) = WithData
        /\ \A i \in 1..Len(all_data) : ~all_data[i].none /\ all_data[i].n > 0
        /\ Len(all_data) = Cardinality(WithData)

\* config1 has no data and is left out, config2 after it is loaded
C12_Witness ==
    /\ Loaded
    /\ "config1" \notin WithData
    /\ ~Has(all_data, "config1")
    /\ "config2" \in WithData
    /\ Has(all_data, "config2")

\* C13: when no configuration has data, main calls no stage after the load:
\* no chart, comparison table, effect-size, power, overhead or export stage.
C13_NoDataNoStage ==
    (Loaded /\ WithData = {}) =>
        /\ invoked = <<"load_all_configurations">>
        /\ charts = <<>>
        /\ reports = NoReports
        /\ pc \in {"return", "done"}

\* a run without data has ended and only the load was called
C13_Witness ==
    /\ pc = "done"
    /\ WithData = {}
    /\ invoked = <<"load_all_configurations">>

\* the call order of a run that has data and runs to its end
FullRun ==
    <<"load_all_configurations", "lateral_movement_chart", "attack_breakdown_chart",
      "latency_chart", "throughput_chart", "resource_utilization_chart", "heatmap",
      "comparison", "effect_size", "power", "overhead", "export">>

\* C14: the driver loads (and aggregates) first, then compares and presents,
\* and ends with exit status 0 on success and with a non-zero exit status when
\* no data was found at all.
C14_ExitStatus ==
    pc = "done" =>
        /\ invoked = SubSeq(FullRun, 1, Len(invoked))
        /\ (WithData # {} /\ ~raised) => exit_status = 0
        /\ WithData = {} => exit_status # 0

\* the rows of the comparison report, once the table stage has written it
ComparisonRows ==
    IF fn = "create_enhanced_comparison_table" /\ reports.comparison.saved
    THEN reports.comparison.rows ELSE <<>>

\* a cell that shows an undefined value: a marker text, an omitted field or
\* a printed nan
UndefinedCell(c) == c.s \in {"N/A", "omitted", ""} /\ IsNaN(c.x)

\* the cells of a delta and of its percentage for the means config_mean and
\* base_mean, as the claim C15 states them
DeltaAsStated(delta, pct, config_mean, base_mean) ==
    LET d == FSub(config_mean, base_mean)
    IN  /\ delta = Fmt(d, 1) \/ delta = Fmt(d, 2)
        /\ IF FEq(base_mean, Num(0)) THEN UndefinedCell(pct)
           ELSE pct = Fmt(FMul(FDiv(d, base_mean), Num(100)), 1)

\* C15: in the comparison report, for every configuration C other than the
\* baseline, delta = C.mean - baseline.mean and delta% = delta /
\* baseline.mean * 100, and delta% is undefined, not a number such as 0,
\* whenever baseline.mean = 0.
C15_DeltaPercent ==
    \A i \in 1..Len(ComparisonRows) :
        LET row == ComparisonRows[i]
            C == Get(all_data, row.Configuration)
            B == Get(all_data, "baseline")
        IN  row.Configuration # "baseline" =>
                /\ C.attack_metrics.present =>
                       DeltaAsStated(row.Delta_Success_vs_Baseline,
                                     row.Delta_Success_Pct,
                                     C.attack_metrics.overall_success_rate.mean,
                                     B.attack_metrics.overall_success_rate.mean)
                /\ C.perf_metrics.present =>
                       DeltaAsStated(row.Delta_Latency_ms, row.Delta_Latency_Pct,
                                     C.perf_metrics.latency_avg.mean,
                                     B.perf_metrics.latency_avg.mean)

\* the rows of the overhead report, once the overhead stage has written it
OverheadRows ==
    IF fn = "create_overhead_analysis" /\ reports.overhead.saved
    THEN reports.overhead.rows ELSE <<>>

\* the overhead of one metric of configuration c against the baseline
Overhead(c, key, type) ==
    calculate_performance_overhead(Get(all_data, "baseline").perf_metrics[key].mean,
                                   Get(all_data, c).perf_metrics[key].mean, type)

\* C16: an undefined statistic is never turned into zero on its way to a
\* report: whenever a confidence margin, effect size, power or overhead is
\* undefined, every report row that shows it renders an undefined marker and
\* never a zero value such as '0.0%'.
C16_UndefinedNeverZero ==
    /\ \A i \in 1..Len(ComparisonRows) :
           LET row == ComparisonRows[i]
               C == Get(all_data, row.Configuration)
               B == Get(all_data, "baseline")
               d == calculate_cohens_d(Success(B), Success(C))
               p == calculate_statistical_power(d, C.n, solver_fails).value
           IN  /\ (C.attack_metrics.present
                   /\ IsNaN(C.attack_metrics.overall_success_rate.margin)) =>
                       UndefinedCell(row.Success_Rate_CI)
               /\ (C.perf_metrics.present
                   /\ IsNaN(C.perf_metrics.latency_avg.margin)) =>
                       UndefinedCell(row.Latency_ms_CI)
               /\ (row.Configuration # "baseline" /\ IsNaN(d)) =>
                       UndefinedCell(row.Cohens_d)
               /\ (row.Configuration # "baseline" /\ p = NoPower) =>
                       row.Statistical_Power.s = "N/A"
    /\ \A i \in 1..Len(OverheadRows) :
           LET row == OverheadRows[i]
               c == row.Configuration
           IN  /\ IsNaN(Overhead(c, "latency_avg", "latency")) =>
                       UndefinedCell(row.Latency_Overhead)
               /\ IsNaN(Overhead(c, "throughput", "throughput")) =>
                       UndefinedCell(row.Throughput_Overhead)
               /\ IsNaN(Overhead(c, "cpu_usage", "other")) =>
                       UndefinedCell(row.CPU_Overhead)
               /\ IsNaN(Overhead(c, "memory_usage", "other")) =>
                       UndefinedCell(row.Memory_Overhead)

\* a cell that shows the number zero
ZeroCell(c) == c.s = "" /\ c.x = Num(0)

\* all deltas of a row of the comparison report are zero
ZeroDeltas(row) ==
    /\ ZeroCell(row.Delta_Success_vs_Baseline)
    /\ ZeroCell(row.Delta_Success_Pct)
    /\ ZeroCell(row.Delta_Latency_ms)
    /\ ZeroCell(row.Delta_Latency_Pct)
    /\ ZeroCell(row.Delta_CPU)

\* C17 as stated: the baseline's own row of the comparison report has zero
\* deltas and its effect size is reported as undefined/self, not as a number.
C17_BaselineEffectNotNumeric ==
    \A i \in 1..Len(ComparisonRows) :
        LET row == ComparisonRows[i]
        IN  row.Configuration = "baseline" =>
                /\ ZeroDeltas(row)
                /\ row.Effect_Size = "Baseline"
                /\ row.Cohens_d.s # ""

\* C17 amended: the baseline's own row has zero deltas and its effect-size
\* class is the self marker "Baseline", but its Cohen's d is shown as the
\* number 0 and its power as the number 1.
C17_BaselineRow ==
    \A i \in 1..Len(ComparisonRows) :
        LET row == ComparisonRows[i]
        IN  row.Configuration = "baseline" =>
                /\ ZeroDeltas(row)
                /\ row.Effect_Size = "Baseline"
                /\ ZeroCell(row.Cohens_d)
                /\ row.Statistical_Power = PowerCell(PowerOne)
                /\ row.Statistical_Power.s = ""

\* a comparison report with the baseline's row and the row of a treatment
\* whose effect size is classified
C17_Witness ==
    /\ Len(ComparisonRows) = 2
    /\ ComparisonRows[1].Configuration = "baseline"
    /\ ComparisonRows[1].Effect_Size = "Baseline"
    /\ ComparisonRows[2].Effect_Size \in {"Negligible", "Small", "Medium", "Large"}

\* C20: in the comparison report, the power of a configuration C other than
\* the baseline is what calculate_statistical_power returns for the effect
\* size between the baseline's and C's raw per-iteration success rates and
\* for n = C's sample count.
C20_RowPower ==
    \A i \in 1..Len(ComparisonRows) :
        LET row == ComparisonRows[i]
            C == Get(all_data, row.Configuration)
            B == Get(all_data, "baseline")
            d == calculate_cohens_d(
                     Column(B.attack_iterations, "overall_success_rate"),
                     Column(C.attack_iterations, "overall_success_rate"))
            p == calculate_statistical_power(d, C.n, solver_fails).value
        IN  row.Configuration # "baseline" =>
                /\ row.Cohens_d = (IF IsNaN(d) THEN Text("N/A") ELSE Fmt(d, 3))
                /\ row.Statistical_Power.p = p
                /\ row.Statistical_Power.s = (IF p = NoPower THEN "N/A" ELSE "")

\* the baseline has n = 1 and config1 has n = 2: the power of config1's row
\* is the solver's value for n = 2
C20_Witness ==
    /\ Len(ComparisonRows) = 2
    /\ Get(all_data, "baseline").n = 1
    /\ Get(all_data, "config1").n = 2
    /\ ComparisonRows[2].Configuration = "config1"
    /\ ComparisonRows[2].Cohens_d.s = ""
    /\ ComparisonRows[2].Statistical_Power.p.k = "val"
    /\ ComparisonRows[2].Statistical_Power.p.nobs1 = 2

\* the configurations the rows of a report are about, row by row
RowConfigs(report) == [i \in 1..Len(report.rows) |-> report.rows[i].Configuration]

\* a run that had data but no baseline has ended
EndedWithoutBaseline ==
    /\ pc = "done"
    /\ WithData # {}
    /\ "baseline" \notin WithData

\* C18 as stated: when the baseline is absent and other configurations are
\* present, no report stage fails fatally and the comparison report still
\* has a row for each present configuration.
C18_RowsWithoutBaseline ==
    EndedWithoutBaseline =>
        /\ ~raised
        /\ exit_status = 0
        /\ reports.comparison.saved
        /\ Range(RowConfigs(reports.comparison)) = WithData

\* C18 amended: when the baseline is absent and other configurations are
\* present, no stage fails and the run ends with status 0; the charts and
\* the per-iteration export are produced for the present configurations,
\* while the comparison table, the effect-size analysis, the power table and
\* the overhead analysis write no report at all.
C18_NoBaselineNoComparison ==
    EndedWithoutBaseline =>
        /\ ~raised
        /\ exit_status = 0
        /\ invoked = FullRun
        /\ \A f \in {"comparison", "effect_size", "power", "overhead"} :
               reports[f] = NoReport
        /\ reports.export.saved
        /\ Len(charts) = 6
        /\ \A i \in 1..Len(charts) : Range(charts[i].configs) = WithData

\* a run with config1 and config3 but no baseline has gone through all stages
C18_Witness ==
    /\ EndedWithoutBaseline
    /\ WithData = {"config1", "config3"}
    /\ invoked = FullRun
    /\ exit_status = 0

\* the place of a configuration in the canonical order
Pos(c) == CHOOSE j \in 1..Len(config_order) : config_order[j] = c

\* seq lists configurations in canonical order (one may repeat, as in the
\* per-iteration export)
Canonical(seq) == \A i, j \in 1..Len(seq) : i < j => Pos(seq[i]) <= Pos(seq[j])

\* seq lists each of its configurations once
NoRepeat(seq) == \A i, j \in 1..Len(seq) : i # j => seq[i] # seq[j]

\* C19: every chart and every report, the per-iteration export included,
\* lists the present configurations in the canonical order baseline, config1,
\* config2, config3, skipping the absent ones.
C19_CanonicalOrder ==
    /\ \A i \in 1..Len(charts) :
           /\ Canonical(charts[i].configs)
           /\ NoRepeat(charts[i].configs)
           /\ Range(charts[i].configs) = WithData
    /\ \A f \in {"comparison", "effect_size", "power", "overhead"} :
           /\ Canonical(RowConfigs(reports[f]))
           /\ NoRepeat(RowConfigs(reports[f]))
           /\ Range(RowConfigs(reports[f])) \subseteq WithData
    /\ \A f \in {"comparison", "overhead"} :
           reports[f].saved => Range(RowConfigs(reports[f])) = WithData
    /\ Canonical(RowConfigs(reports.export))
    /\ reports.export.saved =>
           Range(RowConfigs(reports.export)) =
               {c \in WithData : files[c].attack # <<>> /\ files[c].perf # <<>>}

\* a finished run of baseline, config2 and config3, config1 absent, with all
\* reports written
C19_Witness ==
    /\ pc = "done"
    /\ exit_status = 0
    /\ WithData = {"baseline", "config2", "config3"}
    /\ Len(charts) = 6
    /\ RowConfigs(reports.comparison) = <<"baseline", "config2", "config3">>
    /\ RowConfigs(reports.overhead) = <<"baseline", "config2", "config3">>
    /\ RowConfigs(reports.effect_size) = <<"config2", "config3">>
    /\ RowConfigs(reports.power) = <<"config2", "config3">>
    /\ RowConfigs(reports.export) = <<"baseline", "config2", "config3">>

\* the rows of the power table, once the power stage has written it
PowerRows ==
    IF fn = "create_power_analysis_table" /\ reports.power.saved
    THEN reports.power.rows ELSE <<>>

\* the effect size between the baseline's and c's per-iteration success rates
SuccessEffect(c) ==
    calculate_cohens_d(
        Column(Get(all_data, "baseline").attack_iterations, "overall_success_rate"),
        Column(Get(all_data, c).attack_iterations, "overall_success_rate"))

\* the smaller of the sample counts of the baseline and of c
SmallerN(c) ==
    LET nb == Get(all_data, "baseline").n
        nc == Get(all_data, c).n
    IN  IF nb < nc THEN nb ELSE nc

\* the cell of the power computed for effect size d and sample count nn
PowerAsStated(cell, d, nn) ==
    /\ cell.p = calculate_statistical_power(d, nn, solver_fails).value
    /\ (nn >= 2 /\ ~IsNaN(d) /\ ~solver_fails) =>
           /\ cell.p.k = "val"
           /\ cell.p.nobs1 = nn
           /\ cell.s = ""

\* C21 as stated: whenever the sample counts of the baseline and of a
\* treatment differ, the comparison (the power table and the comparison
\* report alike) computes power with n = min(baseline n, treatment n), and
\* n = 2 with a defined effect size is not rejected and does not fail.
C21_PowerWithMinEverywhere ==
    /\ \A i \in 1..Len(PowerRows) :
           LET row == PowerRows[i]
           IN  /\ row.n = SmallerN(row.Configuration)
               /\ PowerAsStated(row.Success_Rate_Power,
                                SuccessEffect(row.Configuration), row.n)
    /\ \A i \in 1..Len(ComparisonRows) :
           LET row == ComparisonRows[i]
           IN  row.Configuration # "baseline" =>
                   PowerAsStated(row.Statistical_Power,
                                 SuccessEffect(row.Configuration),
                                 SmallerN(row.Configuration))

\* C21 amended: the power table computes power with n = min(baseline n,
\* treatment n); the comparison report computes it with the treatment's own
\* n, which is that minimum only when the treatment's n is not the larger.
\* In both, n = 2 with a defined effect size passes the n < 2 rule and gives
\* the solver's value, and no exception leaves the computation.
C21_PowerTableWithMin ==
    /\ fn = "create_power_analysis_table" => ~raised
    /\ \A i \in 1..Len(PowerRows) :
           LET row == PowerRows[i]
           IN  /\ row.n = SmallerN(row.Configuration)
               /\ PowerAsStated(row.Success_Rate_Power,
                                SuccessEffect(row.Configuration), row.n)
    /\ \A i \in 1..Len(ComparisonRows) :
           LET row == ComparisonRows[i]
           IN  row.Configuration # "baseline" =>
                   PowerAsStated(row.Statistical_Power,
                                 SuccessEffect(row.Configuration),
                                 Get(all_data, row.Configuration).n)

\* the power table of a baseline with n = 5 and a treatment with n = 2: the
\* row has n = 2 and the solver's power for a non-zero effect size
C21_Witness ==
    /\ Len(PowerRows) = 1
    /\ Get(all_data, "baseline").n = 5
    /\ Get(all_data, "config3").n = 2
    /\ PowerRows[1].n = 2
    /\ IsFin(SuccessEffect("config3"))
    /\ ~FEq(SuccessEffect("config3"), Num(0))
    /\ PowerRows[1].Success_Rate_Power.s = ""
    /\ PowerRows[1].Success_Rate_Power.p.k = "val"
    /\ PowerRows[1].Success_Rate_Power.p.nobs1 = 2

\* C22: whenever at least one configuration was loaded, every stage main
\* calls runs to completion without raising, whatever configurations are
\* present and whatever is missing inside them (attack iterations without
\* performance iterations, or the reverse); only the total absence of data
\* stops the run.
C22_NoStageRaises ==
    (Loaded /\ WithData # {}) =>
        /\ ~raised
        /\ pc = "done" => (invoked = FullRun /\ exit_status = 0)

\* the discovered files that can be read
Readable == {i \in 1..Len(found) : found[i].kind = "object"}

\* the place of discovered file i among the readable files, by path
Rank(i) == Cardinality({k \in Readable : found[k].path <= found[i].path})

\* the record the called loader makes of a file it reads
RecordOf(file) ==
    IF fn = "load_attack_iterations" THEN attack_record(file) ELSE perf_record(file)

\* C23: a file that fails to open or parse is skipped and the loader goes on
\* with the next one: the returned list holds exactly one record per file
\* that was read, in the sorted order of the paths, however many files
\* failed and wherever they sit.
C23_OneRecordPerReadFile ==
    fn \in {"load_attack_iterations", "load_performance_iterations"} =>
        /\ ~raised
        /\ Len(iterations) = Cardinality(Readable)
        /\ \A i \in Readable : iterations[Rank(i)] = RecordOf(found[i])

\* three attack files discovered out of path order: the first by path fails,
\* the two after it are read, and the list holds their records in path order
C23_Witness ==
    /\ fn = "load_attack_iterations"
    /\ Len(found) = 3
    /\ found[1].path = 3 /\ found[1].kind = "object" /\ found[1].has_rate
    /\ found[2].path = 1 /\ found[2].kind = "invalid_json"
    /\ found[3].path = 2 /\ found[3].kind = "object" /\ ~found[3].has_rate
    /\ iterations = <<[overall_success_rate |-> Num(0)],
                      [overall_success_rate |-> Num(1)]>>

=============================================================================
